---- MODULE Spec2Model ----
(***************************************************************************)
(* Cloud drift reconciliation of an AWS managed policy                     *)
(* (iambic/aws/iam/policy/utils.py): get_managed_policy fetches the live   *)
(* policy, update_managed_policy reconciles the policy document and        *)
(* rotates policy versions, apply_managed_policy_tags reconciles the tags. *)
(* The IAM provider is the environment: it keeps the policy's versions,    *)
(* the document of its default version and its tags.                       *)
(* Deletion inference over a commit (iambic/core/git.py):                  *)
(* create_templates_for_modified_files compares a template with its        *)
(* content on the default branch and marks the accounts that left scope.   *)
(* Classification of a commit (iambic/core/git.py): retrieve_git_changes   *)
(* sorts the template files a branch changed into new, deleted and         *)
(* modified ones; create_templates_for_deleted_files marks the deleted     *)
(* ones.  list_managed_policies fetches every policy through the bounded   *)
(* executor.  handle_iambic_git_apply                                      *)
(* (iambic/plugins/v0_1_0/github/github.py) applies a pull request and     *)
(* merges it.                                                              *)
(***************************************************************************)
EXTENDS Integers, Sequences, FiniteSets, TLC

VARIABLES
    fn,                        \* the function this behaviour runs: "policy", "tags", "get",
                               \* "modified", "classify", "deleted_files", "process", "git_apply"
    versions,                  \* provider: the policy's versions, in listing order
    default_document,          \* provider: the document of the default version
    live_tags,                 \* provider: the policy's tags, in listing order
    created,                   \* provider: versions created so far (fresh ids, dates)
    template_policy_document,  \* argument: the desired document
    existing_policy_document,  \* argument: the live document, parsed or a JSON string
    template_tags,             \* argument: the desired tags
    existing_tags,             \* argument: the live tags
    read_only,                 \* argument
    execute,                   \* context.execute
    pc,                        \* where the running invocation is
    response,                  \* the list of ProposedChange being built / returned
    policy_versions,           \* local of update_managed_policy
    tasks,                     \* local of apply_managed_policy_tags: the gathered calls
    trace,                     \* the provider writes this invocation issued, in order
    prev_response,             \* <<r>>: the plan run on these same arguments returned r
    reapplied,                 \* this invocation re-reconciles what the last one applied
    fetch,                     \* get_managed_policy: the provider's answers, the outcome
    main_template,             \* git: the template as the default branch has it
    template_dict,             \* git: the template as the commit has it
    modified_template,         \* git: the template object being returned
    deleted_included_accounts, \* git: local of create_templates_for_modified_files
    deleted_exclude_accounts,  \* git: local of create_templates_for_modified_files
    template_excluded_accounts,\* git: local of create_templates_for_modified_files
    log,                       \* git: the log.info records written, in order
    repo_dir,                  \* retrieve_git_changes: argument
    diff_index,                \* retrieve_git_changes: the changed files, by change type
    files,                     \* retrieve_git_changes: the three lists being built
    deleted_files,             \* create_templates_for_deleted_files: argument
    cursor,                    \* create_templates_for_deleted_files: files looked at
    templates,                 \* create_templates_for_deleted_files: the list returned
    messages,                  \* NoqSemaphore.process: argument
    handlers,                  \* NoqSemaphore.process: the state of each handle_message
    results,                   \* NoqSemaphore.process: the list returned
    mergeable_state,           \* GitHub: the pull request's mergeable state
    pull_request,              \* handle_iambic_git_apply: the PullRequest object held
    polls,                     \* handle_iambic_git_apply: passes of the loop done
    calls,                     \* handle_iambic_git_apply: what it has called, in order
    return_code                \* handle_iambic_git_apply: the value returned

vars == <<fn, versions, default_document, live_tags, created,
          template_policy_document, existing_policy_document, template_tags,
          existing_tags, read_only, execute, pc, response, policy_versions, tasks,
          trace, prev_response, reapplied, fetch, main_template, template_dict,
          modified_template, deleted_included_accounts, deleted_exclude_accounts,
          template_excluded_accounts, log, repo_dir, diff_index, files, deleted_files,
          cursor, templates, messages, handlers, results, mergeable_state, pull_request, polls,
          calls, return_code>>

\* The state of create_templates_for_modified_files (iambic/core/git.py).
git == <<main_template, template_dict, modified_template, deleted_included_accounts,
         deleted_exclude_accounts, template_excluded_accounts, log>>

\* The state of retrieve_git_changes, create_templates_for_deleted_files,
\* NoqSemaphore.process and handle_iambic_git_apply.
classifier == <<repo_dir, diff_index, files>>
deletions == <<deleted_files, cursor, templates>>
executor == <<messages, handlers, results>>
merge == <<mergeable_state, pull_request, polls, calls, return_code>>
pipeline == <<classifier, deletions, executor, merge>>

\* What the reconcilers of a managed policy never touch.
elsewhere == <<fetch, git, pipeline>>

\* The arguments and locals of the two reconcilers.
reconcilers == <<template_policy_document, existing_policy_document, template_tags,
                 existing_tags, read_only, execute, response, policy_versions, tasks,
                 trace, prev_response, reapplied>>

provider == <<versions, default_document, live_tags, created>>

(***************************************************************************)
(* Bounds of the model.                                                    *)
(***************************************************************************)
MaxLen == 2            \* longest policy document (statements)
MaxCreated == 2        \* versions the provider creates in one behaviour

Statements == {"s3:Get", "s3:Put"}
InitDates == {1, 2}    \* CreateDate of the versions that exist at the start
TagKeys == <<"a", "b", "c">>   \* the tag keys, in sorted order
TagValues == {"", "1"}

\* The provider's retention ceiling, as the code tests it.
MaxPolicyVersions == 5

\* The policies a listing returns, at most; the permits of the semaphore of
\* list_managed_policies (50 in the code, fewer here so that handlers wait).
MaxMessages == 4
BatchSize == 2

None == "None"

RECURSIVE SeqsUpTo(_, _)
SeqsUpTo(S, n) ==
    IF n = 0 THEN {<<>>}
    ELSE LET shorter == SeqsUpTo(S, n - 1)
         IN  shorter \cup {Append(s, x) : s \in {t \in shorter : Len(t) = n - 1}, x \in S}

Range(s) == {s[i] : i \in DOMAIN s}

Count(x, s) == Cardinality({i \in DOMAIN s : s[i] = x})

Documents == SeqsUpTo(Statements, MaxLen)

(***************************************************************************)
(* The policy document: json and DeepDiff.                                 *)
(***************************************************************************)
\* A document argument is the parsed dict, or the JSON string of it.
json_dumps(doc) == [kind |-> "str", doc |-> doc]
AsDict(doc) == [kind |-> "dict", doc |-> doc]
isinstance_str(value) == value.kind = "str"
json_loads(value) == AsDict(value.doc)

\* A DeepDiff that was not told ignore_order=True: it compares position by position.
DeepDiffInOrder(t1, t2) ==
    [iterable_item_added   |-> {t2[i] : i \in DOMAIN t2 \ DOMAIN t1},
     iterable_item_removed |-> {t1[i] : i \in DOMAIN t1 \ DOMAIN t2},
     repetition_change     |-> {t1[i] : i \in {j \in DOMAIN t1 \cap DOMAIN t2 : t1[j] # t2[j]}}]

\* A DeepDiff that was not told report_repetition=True: it compares the sets of items.
DeepDiffNoRepetition(t1, t2) ==
    [iterable_item_added   |-> Range(t2) \ Range(t1),
     iterable_item_removed |-> Range(t1) \ Range(t2),
     repetition_change     |-> {}]

\* DeepDiff(t1, t2, ignore_order=True, report_repetition=True) of two statement
\* lists: the items only one side has, and the items both have a different
\* number of times.
DeepDiff(t1, t2) ==
    [iterable_item_added   |-> Range(t2) \ Range(t1),
     iterable_item_removed |-> Range(t1) \ Range(t2),
     repetition_change     |-> {x \in Range(t1) \cap Range(t2) : Count(x, t1) # Count(x, t2)}]

\* bool(DeepDiff): an empty diff is falsy.
Truthy(drift) ==
    \/ drift.iterable_item_added # {}
    \/ drift.iterable_item_removed # {}
    \/ drift.repetition_change # {}

(***************************************************************************)
(* Policy versions.                                                        *)
(***************************************************************************)
\* sorted(policy_versions, key=CreateDate): Python's sort is stable, so versions
\* of one CreateDate keep their listing order.
RECURSIVE Insert(_, _)
Insert(v, sorted) ==
    IF sorted = <<>> THEN <<v>>
    ELSE IF v.CreateDate < Head(sorted).CreateDate THEN <<v>> \o sorted
    ELSE <<Head(sorted)>> \o Insert(v, Tail(sorted))

RECURSIVE SortedByCreateDate(_)
SortedByCreateDate(vs) ==
    IF vs = <<>> THEN <<>>
    ELSE Insert(vs[Len(vs)], SortedByCreateDate(SubSeq(vs, 1, Len(vs) - 1)))

\* The oldest version, default or not.
get_oldest_version_id(vs) == SortedByCreateDate(vs)[1].VersionId

get_oldest_policy_version_id(vs) ==
    LET sorted == SortedByCreateDate(vs)
    IN  IF ~sorted[1].IsDefaultVersion THEN sorted[1].VersionId
        ELSE IF Len(sorted) > 1 THEN sorted[2].VersionId
        ELSE 0     \* falls off the end: None

\* get_managed_policy: the policy with the document of its default version.
get_managed_policy == AsDict(default_document)

\* n versions with ids 1..n in listing order, of which version d is the default.
Versions(n, d, date) ==
    [i \in 1..n |-> [VersionId |-> i, CreateDate |-> date[i], IsDefaultVersion |-> (i = d)]]

\* Every policy of 1..5 versions: any CreateDate each, exactly one default.
AllVersions ==
    UNION {{Versions(n, d, date) : d \in 1..n, date \in [1..n -> InitDates]}
           : n \in 1..MaxPolicyVersions}

\* A policy that has only its first version, and one that is at the ceiling.
FewVersions ==
    {Versions(n, n, [i \in 1..n |-> 1]) : n \in {1, MaxPolicyVersions}}

Newest(dates) == CHOOSE m \in dates : \A x \in dates : x <= m

\* The call passes no SetAsDefault, and the provider's default for it is false.
SetAsDefault == FALSE

\* iam_client.create_policy_version: a fresh id, a CreateDate later than any other.
NewVersion(set_as_default) ==
    [VersionId        |-> MaxPolicyVersions + created + 1,
     CreateDate       |-> Newest(InitDates) + created + 1,
     IsDefaultVersion |-> set_as_default]

AfterCreate(doc, set_as_default) ==
    LET kept == IF set_as_default
                THEN [i \in DOMAIN versions |-> [versions[i] EXCEPT !.IsDefaultVersion = FALSE]]
                ELSE versions
    IN  /\ versions' = Append(kept, NewVersion(set_as_default))
        /\ default_document' = IF set_as_default THEN doc ELSE default_document
        /\ created' = created + 1

\* iam_client.delete_policy_version refuses the default version and unknown ids.
CanDelete(id) ==
    \E i \in DOMAIN versions : versions[i].VersionId = id /\ ~versions[i].IsDefaultVersion

AfterDelete(id) == SelectSeq(versions, LAMBDA v : v.VersionId # id)

(***************************************************************************)
(* update_managed_policy                                                   *)
(***************************************************************************)
ProposedChangeUpdate(drift, existing, template) ==
    [change_type    |-> "UPDATE",
     attribute      |-> "policy_document",
     change_summary |-> drift,
     current_value  |-> existing,
     new_value      |-> template]

\* Line 136: the test that makes room before the new version is created.
AtCeilingOrAbove(vs) == Len(vs) > MaxPolicyVersions

AtCeiling(vs) == Len(vs) = MaxPolicyVersions

\* An entry that records the change only where it also applies it.
PolicyEntryReportingOnApply(template, existing_arg, ro) ==
    LET existing == IF isinstance_str(existing_arg) THEN json_loads(existing_arg)
                    ELSE existing_arg
        policy_drift == DeepDiff(existing.doc, template)
    IN  /\ response' = IF Truthy(policy_drift) /\ ~ro
                       THEN <<ProposedChangeUpdate(policy_drift, existing.doc, template)>>
                       ELSE <<>>
        /\ pc' = IF Truthy(policy_drift) /\ ~ro THEN "list_versions" ELSE "done"

\* Lines 108-131: up to the first provider call.
PolicyEntry(template, existing_arg, ro) ==
    LET existing == IF isinstance_str(existing_arg) THEN json_loads(existing_arg)
                    ELSE existing_arg
        policy_drift == DeepDiff(existing.doc, template)
    IN  /\ response' = IF Truthy(policy_drift)
                       THEN <<ProposedChangeUpdate(policy_drift, existing.doc, template)>>
                       ELSE <<>>
        /\ pc' = IF Truthy(policy_drift) /\ ~ro THEN "list_versions" ELSE "done"

\* No invocation is running and no gathered call is still on its way.
Idle ==
    /\ pc \in {"idle", "done", "raised"}
    /\ \A i \in DOMAIN tasks : tasks[i].st \in {"done", "failed"}

\* The caller fetches the live policy and reconciles a template against it; it
\* passes the live document in the form it always does, parsed or as JSON.
UpdateManagedPolicy(template, ro) ==
    /\ fn = "policy"
    /\ Idle
    /\ ro \/ created < MaxCreated
    /\ template_policy_document' = template
    /\ existing_policy_document' =
           IF isinstance_str(existing_policy_document)
           THEN json_dumps(get_managed_policy.doc) ELSE get_managed_policy
    /\ read_only' = ro
    /\ PolicyEntry(template, existing_policy_document', ro)
    /\ trace' = <<>>
    /\ policy_versions' = <<>>
    /\ prev_response' = <<>>
    /\ reapplied' = /\ pc = "done"
                    /\ ~read_only
                    /\ response # <<>>
                    /\ template = template_policy_document
    /\ UNCHANGED <<fn, provider, template_tags, existing_tags, execute, tasks>>
    /\ UNCHANGED elsewhere

\* The caller runs the reconciler again on the arguments of a finished plan run.
RerunManagedPolicy(ro) ==
    /\ fn = "policy"
    /\ pc = "done"
    /\ read_only
    /\ ro \/ created < MaxCreated
    /\ read_only' = ro
    /\ PolicyEntry(template_policy_document, existing_policy_document, ro)
    /\ trace' = <<>>
    /\ policy_versions' = <<>>
    /\ prev_response' = <<response>>
    /\ reapplied' = FALSE
    /\ UNCHANGED <<fn, provider, template_policy_document, existing_policy_document,
                   template_tags, existing_tags, execute, tasks>>
    /\ UNCHANGED elsewhere

\* Lines 133-136.  A provider error propagates.
ListVersions ==
    /\ pc = "list_versions"
    /\ \/ /\ policy_versions' = versions
          /\ pc' = IF AtCeiling(policy_versions') THEN "delete_version"
                   ELSE "create_version"
       \/ /\ pc' = "raised"
          /\ UNCHANGED policy_versions
    /\ UNCHANGED <<fn, provider, template_policy_document, existing_policy_document,
                   template_tags, existing_tags, read_only, execute, response, tasks,
                   trace, prev_response, reapplied>>
    /\ UNCHANGED elsewhere

\* Lines 137-141 with the provider's error caught and passed over.
DeleteVersionSwallowing ==
    /\ pc = "delete_version"
    /\ LET id == get_oldest_policy_version_id(policy_versions)
       IN  /\ trace' = Append(trace, [op |-> "delete_policy_version", arg |-> id])
           /\ \/ /\ CanDelete(id)
                 /\ versions' = AfterDelete(id)
              \/ UNCHANGED versions
           /\ pc' = "create_version"
    /\ UNCHANGED <<fn, default_document, live_tags, created, template_policy_document,
                   existing_policy_document, template_tags, existing_tags, read_only,
                   execute, response, policy_versions, tasks, prev_response, reapplied>>
    /\ UNCHANGED elsewhere

\* Lines 137-141.
DeleteVersion ==
    /\ pc = "delete_version"
    /\ LET id == get_oldest_policy_version_id(policy_versions)
       IN  /\ trace' = Append(trace, [op |-> "delete_policy_version", arg |-> id])
           /\ \/ /\ CanDelete(id)
                 /\ versions' = AfterDelete(id)
                 /\ pc' = "create_version"
              \/ /\ pc' = "raised"
                 /\ UNCHANGED versions
    /\ UNCHANGED <<fn, default_document, live_tags, created, template_policy_document,
                   existing_policy_document, template_tags, existing_tags, read_only,
                   execute, response, policy_versions, tasks, prev_response, reapplied>>
    /\ UNCHANGED elsewhere

\* Lines 143-148.  The provider refuses a version beyond its ceiling.
CreateVersion ==
    /\ pc = "create_version"
    /\ trace' = Append(trace, [op |-> "create_policy_version",
                               arg |-> json_dumps(template_policy_document)])
    /\ \/ /\ Len(versions) < MaxPolicyVersions
          /\ AfterCreate(template_policy_document, SetAsDefault)
          /\ pc' = "done"
       \/ /\ pc' = "raised"
          /\ UNCHANGED <<versions, default_document, created>>
    /\ UNCHANGED <<fn, live_tags, template_policy_document, existing_policy_document,
                   template_tags, existing_tags, read_only, execute, response,
                   policy_versions, tasks, prev_response, reapplied>>
    /\ UNCHANGED elsewhere

(***************************************************************************)
(* apply_managed_policy_tags                                               *)
(***************************************************************************)
Tag(k, v) == [Key |-> k, Value |-> v]

\* {tag["Key"]: tag["Value"] for tag in tags}.get(key): the last value given
\* to the key, None when the key is absent.
RECURSIVE tag_map_get(_, _)
tag_map_get(tags, key) ==
    IF tags = <<>> THEN None
    ELSE IF tags[Len(tags)].Key = key THEN tags[Len(tags)].Value
    ELSE tag_map_get(SubSeq(tags, 1, Len(tags) - 1), key)

\* Python's truth value of a tag value or None.
Falsy(value) == value = None \/ value = ""

\* Line 172: the test that makes a live tag stale.
IsStale(tag, template) == Falsy(tag_map_get(template, tag.Key))

\* Line 166: the test that makes a template tag one to apply.
IsToApply(tag, existing) == tag.Value # tag_map_get(existing, tag.Key)

\* Lines 165-167.
tags_to_apply(template, existing) ==
    SelectSeq(template, LAMBDA tag : IsToApply(tag, existing))

\* Lines 171-173.
RECURSIVE Keys(_)
Keys(tags) == IF tags = <<>> THEN <<>> ELSE <<Head(tags).Key>> \o Keys(Tail(tags))

tags_to_remove(template, existing) ==
    Keys(SelectSeq(existing, LAMBDA tag : IsStale(tag, template)))

ProposedChangeDetach(keys) ==
    [change_type |-> "DETACH", attribute |-> "tags", change_summary |-> [TagKeys |-> keys]]

ProposedChangeAttach(tag) ==
    [change_type |-> "ATTACH", attribute |-> "tags", new_value |-> tag]

\* A loop that leaves after its first tag.
AttachFirstChange(tags) ==
    IF tags = <<>> THEN <<>> ELSE <<ProposedChangeAttach(Head(tags))>>

\* Lines 195-202: one record for each tag to apply.
AttachChanges(tags) == [i \in 1..Len(tags) |-> ProposedChangeAttach(tags[i])]

\* Line 182 and line 203: what lets each provider call onto the task list.
UntagAllowed(ro, ex) == ~ro
TagAllowed(ro, ex) == ex

Task(op, arg) == [op |-> op, arg |-> arg, st |-> "created"]

\* Lines 163-211: everything up to the gather, which has no suspension point.
TagsEntry(template, existing, ro) ==
    LET to_apply == tags_to_apply(template, existing)
        to_remove == tags_to_remove(template, existing)
    IN  /\ response' =
               (IF to_remove # <<>> THEN <<ProposedChangeDetach(to_remove)>> ELSE <<>>)
               \o AttachChanges(to_apply)
        /\ tasks' =
               (IF to_remove # <<>> /\ UntagAllowed(ro, execute)
                THEN <<Task("untag_policy", to_remove)>> ELSE <<>>)
               \o (IF to_apply # <<>> /\ TagAllowed(ro, execute)
                   THEN <<Task("tag_policy", to_apply)>> ELSE <<>>)
        /\ pc' = IF tasks' # <<>> THEN "gather" ELSE "done"

\* list_managed_policy_tags: the provider's tags as it lists them.
list_managed_policy_tags == live_tags

\* The caller fetches the live tags and reconciles the template's tags against them.
ApplyManagedPolicyTags(template, ro) ==
    /\ fn = "tags"
    /\ Idle
    /\ template_tags' = template
    /\ existing_tags' = list_managed_policy_tags
    /\ read_only' = ro
    /\ TagsEntry(template, existing_tags', ro)
    /\ trace' = <<>>
    /\ prev_response' = <<>>
    /\ reapplied' = FALSE
    /\ UNCHANGED <<fn, provider, template_policy_document, existing_policy_document,
                   execute, policy_versions>>
    /\ UNCHANGED elsewhere

\* The caller runs the reconciler again on the arguments of a finished plan run.
RerunManagedPolicyTags(ro) ==
    /\ fn = "tags"
    /\ Idle
    /\ pc = "done"
    /\ read_only
    /\ read_only' = ro
    /\ TagsEntry(template_tags, existing_tags, ro)
    /\ trace' = <<>>
    /\ prev_response' = <<response>>
    /\ reapplied' = FALSE
    /\ UNCHANGED <<fn, provider, template_policy_document, existing_policy_document,
                   template_tags, existing_tags, execute, policy_versions>>
    /\ UNCHANGED elsewhere

\* iam_client.untag_policy
AfterUntag(keys) == SelectSeq(live_tags, LAMBDA tag : tag.Key \notin Range(keys))

\* iam_client.tag_policy: a key the policy has takes the new value, a new key is
\* added.  The provider lists a policy's tags in key order.
RECURSIVE TagsInKeyOrder(_, _, _)
TagsInKeyOrder(k, live, tags) ==
    IF k > Len(TagKeys) THEN <<>>
    ELSE LET new == tag_map_get(tags, TagKeys[k])
             old == tag_map_get(live, TagKeys[k])
             rest == TagsInKeyOrder(k + 1, live, tags)
         IN  IF new # None THEN <<Tag(TagKeys[k], new)>> \o rest
             ELSE IF old # None THEN <<Tag(TagKeys[k], old)>> \o rest
             ELSE rest

AfterTag(live, tags) == TagsInKeyOrder(1, live, tags)

\* Lines 212-213, asyncio.gather(*tasks): the tasks start in list order, each
\* running until its provider call is on its way.
IssueTask(i) ==
    /\ i \in DOMAIN tasks
    /\ tasks[i].st = "created"
    /\ \A j \in 1..(i - 1) : tasks[j].st # "created"
    /\ tasks' = [tasks EXCEPT ![i].st = "inflight"]
    /\ trace' = Append(trace, [op |-> tasks[i].op, arg |-> tasks[i].arg])
    /\ UNCHANGED <<fn, provider, template_policy_document, existing_policy_document,
                   template_tags, existing_tags, read_only, execute, pc, response,
                   policy_versions, prev_response, reapplied>>
    /\ UNCHANGED elsewhere

\* A provider call of the gather returns or raises.  The first exception ends the
\* gather; the other call is not cancelled.
CompleteTask(i, ok) ==
    /\ i \in DOMAIN tasks
    /\ tasks[i].st = "inflight"
    /\ tasks' = [tasks EXCEPT ![i].st = IF ok THEN "done" ELSE "failed"]
    /\ live_tags' = IF ~ok THEN live_tags
                    ELSE IF tasks[i].op = "untag_policy" THEN AfterUntag(tasks[i].arg)
                    ELSE AfterTag(live_tags, tasks[i].arg)
    /\ pc' = IF pc # "gather" THEN pc
             ELSE IF ~ok THEN "raised"
             ELSE IF \A j \in DOMAIN tasks : tasks'[j].st = "done" THEN "done"
             ELSE pc
    /\ UNCHANGED <<fn, versions, default_document, created, template_policy_document,
                   existing_policy_document, template_tags, existing_tags, read_only,
                   execute, response, policy_versions, trace, prev_response, reapplied>>
    /\ UNCHANGED elsewhere

\* Every tag list over TagKeys and TagValues, its keys distinct and in key order.
RECURSIVE TagListsFrom(_)
TagListsFrom(first) ==
    {<<>>} \cup
    UNION {{<<Tag(TagKeys[k], v)>> \o rest : v \in TagValues, rest \in TagListsFrom(k + 1)}
           : k \in first..Len(TagKeys)}

TagLists == TagListsFrom(1)

(***************************************************************************)
(* get_managed_policy                                                      *)
(***************************************************************************)
\* The error codes the provider puts in a botocore ClientError.
ErrorCodes == {"NoSuchEntity", "AccessDenied", "Throttling"}

ClientError(code) == [kind |-> "ClientError", code |-> code]

\* An exception of another class, as a lost connection raises it.
ConnectionError == [kind |-> "EndpointConnectionError", code |-> None]

\* The provider returns a response, with the entity asked for or without it.
Described == [kind |-> "ok", code |-> "described"]
NotDescribed == [kind |-> "ok", code |-> "empty"]

Exceptions == {ClientError(code) : code \in ErrorCodes} \cup {ConnectionError}

\* The dict {} and the dicts a stored policy is described by.
EmptyDict == [empty |-> TRUE]
PolicyDict(id) == [empty |-> FALSE, DefaultVersionId |-> id]
PolicyWithDocument(doc) == [empty |-> FALSE, PolicyDocument |-> doc]

DefaultVersionId == (CHOOSE v \in Range(versions) : v.IsDefaultVersion).VersionId

\* What iam_client.get_policy can answer: the policy where there is one, a
\* response without "Policy", or an exception.
GetPolicyAnswers == {Described, NotDescribed} \cup Exceptions

\* What get_managed_policy_version_doc can answer: the document of the default
\* version, or an exception of iam_client.get_policy_version.
GetPolicyVersionAnswers == {Described} \cup Exceptions

\* No response is bound yet; no exception leaves the function.
Unbound == [unbound |-> TRUE]
NoError == [kind |-> "none", code |-> None]

NoFetch == [answers |-> <<>>, response |-> Unbound, error |-> NoError]

\* A handler that takes every ClientError for a missing policy.
ExceptAnyClientError(err) ==
    IF err.kind = "ClientError"
    THEN [pc |-> "returned", response |-> EmptyDict, error |-> NoError]
    ELSE [pc |-> "raised", response |-> Unbound, error |-> err]

\* Lines 52-56: the except clause, and what passes it by.
ExceptClientError(err) ==
    IF err.kind = "ClientError" /\ err.code = "NoSuchEntity"
    THEN [pc |-> "returned", response |-> EmptyDict, error |-> NoError]
    ELSE [pc |-> "raised", response |-> Unbound, error |-> err]

\* Lines 43-47: get_policy is answered.
GetPolicy(answer) ==
    /\ fn = "get"
    /\ pc = "idle"
    /\ answer = Described => versions # <<>>
    /\ LET out == IF answer.kind # "ok" THEN ExceptClientError(answer)
                  ELSE IF answer = NotDescribed
                  THEN [pc |-> "returned", response |-> EmptyDict, error |-> NoError]
                  ELSE [pc |-> "get_policy_version",
                        response |-> PolicyDict(DefaultVersionId), error |-> NoError]
       IN  /\ pc' = out.pc
           /\ fetch' = [answers |-> <<answer>>, response |-> out.response,
                        error |-> out.error]
    /\ UNCHANGED <<fn, provider, template_policy_document, existing_policy_document,
                   template_tags, existing_tags, read_only, execute, response,
                   policy_versions, tasks, trace, prev_response, reapplied, git>>
    /\ UNCHANGED pipeline

\* Lines 48-51 and 57: the document of the default version is answered.
GetPolicyVersion(answer) ==
    /\ fn = "get"
    /\ pc = "get_policy_version"
    /\ LET out == IF answer.kind # "ok" THEN ExceptClientError(answer)
                  ELSE [pc |-> "returned",
                        response |-> PolicyWithDocument(get_managed_policy),
                        error |-> NoError]
       IN  /\ pc' = out.pc
           /\ fetch' = [answers |-> Append(fetch.answers, answer),
                        response |-> out.response, error |-> out.error]
    /\ UNCHANGED <<fn, provider, template_policy_document, existing_policy_document,
                   template_tags, existing_tags, read_only, execute, response,
                   policy_versions, tasks, trace, prev_response, reapplied, git>>
    /\ UNCHANGED pipeline

(***************************************************************************)
(* create_templates_for_modified_files (iambic/core/git.py).  A str is the *)
(* sequence of its characters; an account pattern is a str.                *)
(***************************************************************************)
star == <<"*">>
dev == <<"d", "e", "v">>
dev2 == <<"d", "e", "v", "2">>
prod == <<"p", "r", "o", "d">>

Account(id, name) == [account_id |-> id, account_name |-> name]

\* config.accounts: the roster, in the order the configuration lists it.
config_accounts ==
    <<Account(<<"1", "1", "1">>, dev),
      Account(<<"2", "2", "2">>, dev2),
      Account(<<"3", "3", "3">>, prod)>>

\* sep.join(strs)
RECURSIVE join(_, _)
join(sep, strs) ==
    IF strs = <<>> THEN <<>>
    ELSE IF Len(strs) = 1 THEN strs[1]
    ELSE strs[1] \o sep \o join(sep, Tail(strs))

\* re.match(pattern, str): the pattern at the start of the str only.
re_match(pattern, str) ==
    Len(pattern) <= Len(str) /\ SubSeq(str, 1, Len(pattern)) = pattern

\* re.search of a pattern without metacharacters: it occurs somewhere in the str.
re_search(pattern, str) ==
    \E i \in 0..(Len(str) - Len(pattern)) :
        SubSeq(str, i + 1, i + Len(pattern)) = pattern

\* Line 155: rf"({account_id}|{account_name})"
account_regex(account_config) ==
    <<"(">> \o account_config.account_id \o <<"|">> \o account_config.account_name
            \o <<")">>

\* re.search of an account_regex: either alternative occurs somewhere in the str.
re_search_account_regex(account_config, str) ==
    \/ re_search(account_config.account_id, str)
    \/ re_search(account_config.account_name, str)

\* Lines 154-173: the roster accounts appended, in roster order.
ImplicitlyRemoved(str) ==
    LET kept == SelectSeq(config_accounts,
                          LAMBDA a : ~re_search_account_regex(a, str))
    IN  [i \in DOMAIN kept |-> account_regex(kept[i])]

\* Lines 188-204: the old patterns appended, in their order.
ExplicitlyRemoved(included_accounts, str) ==
    SelectSeq(included_accounts, LAMBDA account : ~re_search(account, str))

\* The scope resolver: a pattern is "*" or a regular expression searched for in
\* the account's id and name.
Matches(pattern, account_config) ==
    \/ pattern = star
    \/ re_search(pattern, account_config.account_id)
    \/ re_search(pattern, account_config.account_name)

MatchedBy(patterns, account_config) ==
    \E i \in DOMAIN patterns : Matches(patterns[i], account_config)

LogInfo(reason, account) == [reason |-> reason, account |-> account]

LogAll(reason, accounts) == [i \in DOMAIN accounts |-> LogInfo(reason, accounts[i])]

\* The marked accounts left out of template.included_accounts.
NotAppended(included_accounts, accounts) == included_accounts

\* Lines 173, 204, 248: template.included_accounts.append(account), for each
\* account marked.
Appended(included_accounts, accounts) == included_accounts \o accounts

\* Lines 134-204: the accounts the commit removed from included_accounts.
InferIncludedAccounts ==
    /\ fn = "modified"
    /\ pc = "included"
    /\ deleted_exclude_accounts' = modified_template.included_accounts
    /\ LET str == join(<<"\n">>, deleted_exclude_accounts')
           wildcard == star \in Range(main_template.included_accounts)
           removed ==
               IF star \in Range(deleted_exclude_accounts') THEN <<>>
               ELSE IF wildcard THEN ImplicitlyRemoved(str)
               ELSE ExplicitlyRemoved(main_template.included_accounts, str)
           reason == IF wildcard THEN "Implicitly removed from included_accounts"
                     ELSE "Explicitly removed from included_accounts."
       IN  /\ deleted_included_accounts' = removed
           /\ modified_template' =
                  [modified_template EXCEPT
                      !.included_accounts = Appended(@, removed)]
           /\ log' = log \o LogAll(reason, removed)
    /\ pc' = "excluded"
    /\ UNCHANGED <<fn, provider, template_policy_document, existing_policy_document,
                   template_tags, existing_tags, read_only, execute, response,
                   policy_versions, tasks, trace, prev_response, reapplied, fetch,
                   main_template, template_dict, template_excluded_accounts>>
    /\ UNCHANGED pipeline

\* Lines 226-239 with the test of the old included_accounts put first.
OutcomeIncludedFirst(account) ==
    LET included_str == join(<<"\n">>, main_template.included_accounts)
        excluded_str == join(<<"\n">>, main_template.excluded_accounts)
    IN  IF \/ re_search(account, included_str)
           \/ star \in Range(main_template.included_accounts)
        THEN "delete"
        ELSE IF excluded_str # <<>> /\ re_search(account, excluded_str)
        THEN "already excluded"
        ELSE "exclude"

\* Lines 226-239: what the loop does with one pattern of excluded_accounts.
Outcome(account) ==
    LET included_str == join(<<"\n">>, main_template.included_accounts)
        excluded_str == join(<<"\n">>, main_template.excluded_accounts)
    IN  IF excluded_str # <<>> /\ re_search(account, excluded_str)
        THEN "already excluded"
        ELSE IF \/ re_search(account, included_str)
                \/ star \in Range(main_template.included_accounts)
        THEN "delete"
        ELSE "exclude"

\* Lines 206-256: the accounts the commit added to excluded_accounts.
InferExcludedAccounts ==
    /\ fn = "modified"
    /\ pc = "excluded"
    /\ LET excluded == modified_template.excluded_accounts
           marked == SelectSeq(excluded, LAMBDA account : Outcome(account) = "delete")
       IN  /\ template_excluded_accounts' =
                  SelectSeq(excluded, LAMBDA account : Outcome(account) # "delete")
           /\ deleted_included_accounts' = deleted_included_accounts \o marked
           /\ modified_template' =
                  [modified_template EXCEPT
                      !.included_accounts = Appended(@, marked),
                      !.excluded_accounts = template_excluded_accounts']
           /\ log' = log \o LogAll("Account added to excluded_accounts for resource.",
                                   marked)
    /\ pc' = "deleted"
    /\ UNCHANGED <<fn, provider, template_policy_document, existing_policy_document,
                   template_tags, existing_tags, read_only, execute, response,
                   policy_versions, tasks, trace, prev_response, reapplied, fetch,
                   main_template, template_dict, deleted_exclude_accounts>>
    /\ UNCHANGED pipeline

Deleted(included_accounts, excluded_accounts) ==
    [deleted |-> TRUE,
     included_accounts |-> included_accounts,
     excluded_accounts |-> excluded_accounts]

\* Line 262, unfiltered.
AllOf(accounts) == accounts

\* Line 262: [ea for ea in deleted_exclude_accounts if ea != "*"]
WithoutStar(accounts) == SelectSeq(accounts, LAMBDA ea : ea # star)

\* template.deleted is a bool or a list of Deleted.
Bool(value) == [bool |-> value]
List(records) == [list |-> records]
isinstance_bool(value) == "bool" \in DOMAIN value

\* Lines 264-267 with the list replaced where it is to grow.
ReplacingDeleted(deleted, deleted_obj) == List(<<deleted_obj>>)

\* Lines 264-267.
WithDeleted(deleted, deleted_obj) ==
    IF isinstance_bool(deleted) THEN List(<<deleted_obj>>)
    ELSE List(Append(deleted.list, deleted_obj))

\* Lines 258-269: the Deleted record of this commit, and the template is returned.
RecordDeleted ==
    /\ fn = "modified"
    /\ pc = "deleted"
    /\ modified_template' =
           IF deleted_included_accounts # <<>> /\ modified_template.deleted # Bool(TRUE)
           THEN [modified_template EXCEPT !.deleted =
                    WithDeleted(@, Deleted(deleted_included_accounts,
                                           WithoutStar(deleted_exclude_accounts)))]
           ELSE modified_template
    /\ pc' = "returned"
    /\ UNCHANGED <<fn, provider, template_policy_document, existing_policy_document,
                   template_tags, existing_tags, read_only, execute, response,
                   policy_versions, tasks, trace, prev_response, reapplied, fetch,
                   main_template, template_dict, deleted_included_accounts,
                   deleted_exclude_accounts, template_excluded_accounts, log>>
    /\ UNCHANGED pipeline

(***************************************************************************)
(* retrieve_git_changes (iambic/core/git.py).  A path is the sequence of   *)
(* its components, a file's content the sequence of its top-level          *)
(* key: value entries.                                                     *)
(***************************************************************************)
Component(name, ext) == [name |-> name, ext |-> ext]
Root == Component("/", "")

\* os.path.join(a, b)
os_path_join(a, b) ==
    IF a = <<>> \/ (b # <<>> /\ b[1] = Root) THEN b ELSE a \o b

\* path.endswith(".yaml")
endswith_yaml(path) == path # <<>> /\ path[Len(path)].ext = ".yaml"

\* A key with a scalar value, a key with a list of items.
Scalar(key, value) == [key |-> key, scalar |-> value, items |-> <<>>]
Items(key, items) == [key |-> key, scalar |-> None, items |-> items]

\* The template types with the NOQ:: marker, and those of them in TEMPLATE_TYPE_MAP.
NoqTemplateTypes == {"NOQ::AWS::IAM::Role", "NOQ::Example::Unregistered"}
TEMPLATE_TYPE_MAP == {"NOQ::AWS::IAM::Role"}

\* re.search(NOQ_TEMPLATE_REGEX, content)
has_template_marker(content) ==
    \E i \in DOMAIN content :
        content[i].key = "template_type" /\ content[i].scalar \in NoqTemplateTypes

\* file_regex_search(path, NOQ_TEMPLATE_REGEX): the file at the path of the
\* working tree is the new content of the changed file.
file_regex_search(file_obj) == has_template_marker(file_obj.b_content)

\* yaml.load: the mapping of the keys, the last entry of a key taken.
RECURSIVE yaml_get(_, _)
yaml_get(content, key) ==
    IF content = <<>> THEN Scalar(key, None)
    ELSE IF content[Len(content)].key = key THEN content[Len(content)]
    ELSE yaml_get(SubSeq(content, 1, Len(content) - 1), key)

yaml_load(content) ==
    [template_type |-> yaml_get(content, "template_type").scalar,
     resource_name |-> yaml_get(content, "resource_name").scalar,
     statements    |-> yaml_get(content, "statements").items]

\* DeepDiff(t1, t2) of two parsed files, the order of the list items compared.
DeepDiffKeepingOrder(t1, t2) ==
    [values_changed        |-> {key \in {"template_type", "resource_name", "statements"} :
                                   t1[key] # t2[key]},
     iterable_item_added   |-> Range(t2.statements) \ Range(t1.statements),
     iterable_item_removed |-> Range(t1.statements) \ Range(t2.statements),
     repetition_change     |-> {}]

\* Lines 70-72, DeepDiff(t1, t2, ignore_order=True) of two parsed files: the
\* scalar values that differ and the list items only one side has; how often
\* an item is repeated is not reported.
DeepDiffIgnoreOrder(t1, t2) ==
    [values_changed        |-> {key \in {"template_type", "resource_name"} :
                                   t1[key] # t2[key]},
     iterable_item_added   |-> Range(t2.statements) \ Range(t1.statements),
     iterable_item_removed |-> Range(t1.statements) \ Range(t2.statements),
     repetition_change     |-> {}]

\* bool(DeepDiff) of two parsed files.
TruthyDiff(diff) ==
    \/ diff.values_changed # {}
    \/ diff.iterable_item_added # {}
    \/ diff.iterable_item_removed # {}
    \/ diff.repetition_change # {}

NoContent == <<>>

GitDiff(path, content, is_deleted) ==
    [path |-> path, content |-> content, is_deleted |-> is_deleted]

\* Lines 37-42: the GitDiff of each added file that passes the test.
NewFiles(dir, file_objs) ==
    LET kept == SelectSeq(file_objs, LAMBDA file_obj :
                    endswith_yaml(file_obj.b_path) /\ file_regex_search(file_obj))
    IN  [i \in DOMAIN kept |->
            GitDiff(os_path_join(dir, kept[i].b_path), NoContent, FALSE)]

\* Lines 45-53 without the test of line 52.
DeletedFilesUnsearched(dir, file_objs) ==
    LET kept == SelectSeq(file_objs, LAMBDA file_obj : endswith_yaml(file_obj.b_path))
    IN  [i \in DOMAIN kept |->
            GitDiff(os_path_join(dir, kept[i].b_path), kept[i].a_content, TRUE)]

\* Lines 45-53: the GitDiff of each deleted file that passes the tests.
DeletedFiles(dir, file_objs) ==
    LET kept == SelectSeq(file_objs, LAMBDA file_obj :
                    endswith_yaml(file_obj.b_path)
                    /\ has_template_marker(file_obj.a_content))
    IN  [i \in DOMAIN kept |->
            GitDiff(os_path_join(dir, kept[i].b_path), kept[i].a_content, TRUE)]

\* Lines 57-91: one pass of the loop over the modified files.  The pass ends
\* in "skip" (nothing appended), "modified", "replaced" (the old file deleted,
\* the new one added) or "raise" (an exception leaves the function).
ModifiedOutcome(dir, file_obj) ==
    LET path == os_path_join(dir, file_obj.b_path)
        main_path == file_obj.a_path
        new_template_dict == yaml_load(file_obj.b_content)
        main_template_dict == yaml_load(file_obj.a_content)
    IN  IF ~(endswith_yaml(path) /\ file_regex_search(file_obj)) THEN "skip"
        ELSE IF main_path # path /\ has_template_marker(file_obj.a_content)
        THEN IF ~TruthyDiff(DeepDiffIgnoreOrder(new_template_dict, main_template_dict))
             THEN "skip"
             ELSE IF main_template_dict.template_type \notin TEMPLATE_TYPE_MAP
             THEN "raise"
             ELSE IF main_template_dict.resource_name # new_template_dict.resource_name
             THEN "replaced"
             ELSE "modified"
        ELSE "modified"

\* Lines 56-91: the loop over the modified files, from lists fs on.
RECURSIVE ModifiedFiles(_, _, _)
ModifiedFiles(dir, file_objs, fs) ==
    IF file_objs = <<>> THEN [raised |-> FALSE, files |-> fs]
    ELSE LET file_obj == Head(file_objs)
             path == os_path_join(dir, file_obj.b_path)
             outcome == ModifiedOutcome(dir, file_obj)
             deleted_file == GitDiff(os_path_join(dir, file_obj.a_path),
                                     file_obj.a_content, TRUE)
             file == GitDiff(os_path_join(dir, path), file_obj.a_content, FALSE)
         IN  IF outcome = "raise" THEN [raised |-> TRUE, files |-> fs]
             ELSE ModifiedFiles(dir, Tail(file_objs),
                    IF outcome = "replaced"
                    THEN [fs EXCEPT
                            !.deleted_files = Append(@, deleted_file),
                            !.new_files = Append(@, GitDiff(path, NoContent, FALSE))]
                    ELSE IF outcome = "modified"
                    THEN [fs EXCEPT !.modified_files = Append(@, file)]
                    ELSE fs)

\* diff_index.iter_change_type(change_type)
iter_change_type(change_type) == diff_index[change_type]

\* Lines 36-42.
CollectNewFiles ==
    /\ fn = "classify"
    /\ pc = "new"
    /\ files' = [files EXCEPT !.new_files = @ \o NewFiles(repo_dir, iter_change_type("A"))]
    /\ pc' = "deleted"
    /\ UNCHANGED <<fn, provider, reconcilers, fetch, git, repo_dir, diff_index,
                   deletions, executor, merge>>

\* Lines 44-53.
CollectDeletedFiles ==
    /\ fn = "classify"
    /\ pc = "deleted"
    /\ files' = [files EXCEPT
                    !.deleted_files = @ \o DeletedFiles(repo_dir, iter_change_type("D"))]
    /\ pc' = "modified"
    /\ UNCHANGED <<fn, provider, reconcilers, fetch, git, repo_dir, diff_index,
                   deletions, executor, merge>>

\* Lines 55-93: the files are returned unless an exception leaves the loop.
CollectModifiedFiles ==
    /\ fn = "classify"
    /\ pc = "modified"
    /\ LET out == ModifiedFiles(repo_dir, iter_change_type("M"), files)
       IN  /\ files' = out.files
           /\ pc' = IF out.raised THEN "raised" ELSE "returned"
    /\ UNCHANGED <<fn, provider, reconcilers, fetch, git, repo_dir, diff_index,
                   deletions, executor, merge>>

(***************************************************************************)
(* create_templates_for_deleted_files (iambic/core/git.py).                *)
(***************************************************************************)
\* A truthy value: True or a list that is not empty.
truthy(value) ==
    IF isinstance_bool(value) THEN value.bool ELSE value.list # <<>>

\* Line 107: template.deleted is True
is_True(value) == value = Bool(TRUE)

\* The deleted attribute of the document: a bool, or a list of Deleted records.
deleted_of(content) ==
    LET entry == yaml_get(content, "deleted")
    IN  IF entry.items # <<>> THEN List(entry.items)
        ELSE Bool(entry.scalar = "true")

\* Line 106: template_cls(file_path=git_diff.path, **template_dict)
template_cls(file_path, content) ==
    [file_path |-> file_path,
     template_type |-> yaml_get(content, "template_type").scalar,
     deleted |-> deleted_of(content)]

\* Lines 103-111: one pass of the loop over deleted_files.
TemplateForDeletedFile ==
    /\ fn = "deleted_files"
    /\ pc = "loop"
    /\ cursor < Len(deleted_files)
    /\ LET git_diff == deleted_files[cursor + 1]
           template == template_cls(git_diff.path, git_diff.content)
       IN  IF template.template_type \notin TEMPLATE_TYPE_MAP
           THEN /\ pc' = "raised"
                /\ UNCHANGED <<cursor, templates>>
           ELSE /\ pc' = pc
                /\ cursor' = cursor + 1
                /\ templates' =
                       IF is_True(template.deleted) THEN templates
                       ELSE Append(templates, [template EXCEPT !.deleted = Bool(TRUE)])
    /\ UNCHANGED <<fn, provider, reconcilers, fetch, git, classifier, deleted_files,
                   executor, merge>>

\* Line 113: return templates
ReturnTemplates ==
    /\ fn = "deleted_files"
    /\ pc = "loop"
    /\ cursor = Len(deleted_files)
    /\ pc' = "returned"
    /\ UNCHANGED <<fn, provider, reconcilers, fetch, git, pipeline>>

(***************************************************************************)
(* list_managed_policies and the bounded executor, NoqSemaphore            *)
(* (iambic.core.utils): process(messages) runs handle_message on every     *)
(* message at once, each call of the callback made under a semaphore of    *)
(* batch_size permits, and gathers the values returned.                    *)
(***************************************************************************)
\* Lines 88-92: one message per policy listed, in the order of the listing.
Messages(managed_policies) ==
    [i \in DOMAIN managed_policies |->
        [managed_policy_arn |-> managed_policies[i].Arn]]

\* What get_managed_policy returns for a message.
Callback(message) == [PolicyArn |-> message.managed_policy_arn]

\* The handlers holding a permit of the semaphore.
InFlight == {i \in DOMAIN handlers : handlers[i].state = "running"}

Finished == {i \in DOMAIN handlers : handlers[i].state = "done"}

\* The values in the order the handlers finished.
as_completed(tasks_done) ==
    [k \in DOMAIN tasks_done |->
        tasks_done[CHOOSE i \in DOMAIN tasks_done : tasks_done[i].finished = k].value]

\* asyncio.gather: the values in the order of the awaitables.
gather(tasks_done) == [i \in DOMAIN tasks_done |-> tasks_done[i].value]

\* async with self.semaphore: a handler takes a permit when one is free.
Acquire(i) ==
    /\ fn = "process"
    /\ pc = "gathering"
    /\ i \in DOMAIN handlers
    /\ handlers[i].state = "waiting"
    /\ Cardinality(InFlight) < BatchSize
    /\ handlers' = [handlers EXCEPT ![i].state = "running"]
    /\ UNCHANGED <<fn, pc, provider, reconcilers, fetch, git, classifier, deletions,
                   messages, results, merge>>

\* The callback returns, the permit is given back.
Release(i) ==
    /\ fn = "process"
    /\ pc = "gathering"
    /\ i \in DOMAIN handlers
    /\ handlers[i].state = "running"
    /\ handlers' = [handlers EXCEPT ![i] = [state |-> "done",
                                            value |-> Callback(messages[i]),
                                            finished |-> Cardinality(Finished) + 1]]
    /\ UNCHANGED <<fn, pc, provider, reconcilers, fetch, git, classifier, deletions,
                   messages, results, merge>>

\* Every handler is done: process returns what gather collected.
ReturnResults ==
    /\ fn = "process"
    /\ pc = "gathering"
    /\ Finished = DOMAIN handlers
    /\ results' = gather(handlers)
    /\ pc' = "returned"
    /\ UNCHANGED <<fn, provider, reconcilers, fetch, git, classifier, deletions,
                   messages, handlers, merge>>

(***************************************************************************)
(* handle_iambic_git_apply (iambic/plugins/v0_1_0/github/github.py).       *)
(* GitHub is the environment: it keeps the pull request's mergeable state, *)
(* which a PullRequest object holds as it was when the object was fetched. *)
(***************************************************************************)
MERGEABLE_STATE_CLEAN == "clean"

\* Line 373: range(5)
PollPasses == 5

\* A call the function makes; for a read of the mergeable state, what it saw.
Call(name) == [call |-> name, observed |-> None]
Observed(name, state) == [call |-> name, observed |-> state]

\* templates_repo.get_pull(pull_number)
get_pull == [mergeable_state |-> mergeable_state]

\* Lines 323-330: the test of the pull request handed in.
CheckMergeable ==
    /\ fn = "git_apply"
    /\ pc = "entry"
    /\ LET seen == Observed("mergeable_state", pull_request.mergeable_state)
       IN  IF pull_request.mergeable_state # MERGEABLE_STATE_CLEAN
           THEN /\ calls' = calls \o <<seen, Call("create_issue_comment")>>
                /\ return_code' = "MERGEABLE_STATE_NOT_CLEAN"
                /\ pc' = "returned"
           ELSE /\ calls' = Append(calls, seen)
                /\ pc' = "apply"
                /\ UNCHANGED return_code
    /\ UNCHANGED <<fn, provider, reconcilers, fetch, git, classifier, deletions,
                   executor, mergeable_state, pull_request, polls>>

\* Lines 332-371 and 383-391: the repository prepared, git_apply run, its
\* changes pushed and its result posted; any of it may raise.
GitApply(raises, changed) ==
    /\ fn = "git_apply"
    /\ pc = "apply"
    /\ IF raises
       THEN /\ calls' = calls \o <<Call("git_apply"), Call("create_issue_comment")>>
            /\ pc' = "raised"
       ELSE /\ calls' = calls \o <<Call("git_apply")>>
                              \o (IF changed THEN <<Call("push")>> ELSE <<>>)
                              \o <<Call("post_result_as_pr_comment")>>
            /\ pc' = "poll"
    /\ UNCHANGED <<fn, provider, reconcilers, fetch, git, classifier, deletions,
                   executor, mergeable_state, pull_request, polls, return_code>>

\* Lines 373-377: one pass of the loop.
PollMergeable ==
    /\ fn = "git_apply"
    /\ pc = "poll"
    /\ polls < PollPasses
    /\ pull_request' = get_pull
    /\ calls' = calls \o <<Observed("get_pull", mergeable_state)>>
                      \o (IF mergeable_state # MERGEABLE_STATE_CLEAN
                          THEN <<Call("sleep")>> ELSE <<>>)
    /\ polls' = polls + 1
    /\ UNCHANGED <<fn, pc, provider, reconcilers, fetch, git, classifier, deletions,
                   executor, mergeable_state, return_code>>

\* Lines 379-391: the pull request fetched once more and merged; GitHub
\* accepts the merge or the call raises.
Merge(accepted) ==
    /\ fn = "git_apply"
    /\ pc = "poll"
    /\ polls = PollPasses
    /\ pull_request' = get_pull
    /\ IF accepted
       THEN /\ calls' = calls \o <<Observed("get_pull", mergeable_state), Call("merge")>>
            /\ return_code' = "MERGED"
            /\ pc' = "returned"
       ELSE /\ calls' = calls \o <<Observed("get_pull", mergeable_state), Call("merge"),
                                   Call("create_issue_comment")>>
            /\ pc' = "raised"
            /\ UNCHANGED return_code
    /\ UNCHANGED <<fn, provider, reconcilers, fetch, git, classifier, deletions,
                   executor, mergeable_state, polls>>

\* GitHub: a review, a check or a push changes the mergeable state.
MergeableStateChanges(state) ==
    /\ fn = "git_apply"
    /\ pc \in {"apply", "poll"}
    /\ state # mergeable_state
    /\ mergeable_state' = state
    /\ UNCHANGED <<fn, pc, provider, reconcilers, fetch, git, classifier, deletions,
                   executor, pull_request, polls, calls, return_code>>

(***************************************************************************)
(* The specifications.                                                     *)
(***************************************************************************)
\* No template of a commit is being looked at.
NoGit ==
    /\ main_template = None
    /\ template_dict = None
    /\ modified_template = None
    /\ deleted_included_accounts = <<>>
    /\ deleted_exclude_accounts = <<>>
    /\ template_excluded_accounts = <<>>
    /\ log = <<>>

\* Nothing of the pipeline over a commit runs.
NoClassifier ==
    /\ repo_dir = <<>>
    /\ diff_index = <<>>
    /\ files = <<>>

NoDeletions ==
    /\ deleted_files = <<>>
    /\ cursor = 0
    /\ templates = <<>>

NoExecutor ==
    /\ messages = <<>>
    /\ handlers = <<>>
    /\ results = <<>>

NoMerge ==
    /\ mergeable_state = None
    /\ pull_request = None
    /\ polls = 0
    /\ calls = <<>>
    /\ return_code = None

InitElsewhere ==
    /\ fetch = NoFetch
    /\ NoGit
    /\ NoClassifier
    /\ NoDeletions
    /\ NoExecutor
    /\ NoMerge

InitLocals ==
    /\ template_policy_document = <<>>
    /\ template_tags = <<>>
    /\ existing_tags = <<>>
    /\ read_only = TRUE
    /\ pc = "idle"
    /\ response = <<>>
    /\ policy_versions = <<>>
    /\ tasks = <<>>
    /\ trace = <<>>
    /\ prev_response = <<>>
    /\ reapplied = FALSE

InitPolicy(version_lists, documents, forms) ==
    /\ fn = "policy"
    /\ existing_policy_document \in {AsDict(<<>>), json_dumps(<<>>)}
    /\ isinstance_str(existing_policy_document) \in forms
    /\ versions \in version_lists
    /\ default_document \in documents
    /\ live_tags = <<>>
    /\ created = 0
    /\ execute \in BOOLEAN
    /\ InitLocals
    /\ InitElsewhere

InitTags ==
    /\ fn = "tags"
    /\ existing_policy_document = AsDict(<<>>)
    /\ versions = Versions(1, 1, [i \in {1} |-> 1])
    /\ default_document = <<>>
    /\ live_tags \in TagLists
    /\ created = 0
    /\ execute \in BOOLEAN
    /\ InitLocals
    /\ InitElsewhere

NextPolicy(documents) ==
    \/ \E template \in documents, ro \in BOOLEAN : UpdateManagedPolicy(template, ro)
    \/ \E ro \in BOOLEAN : RerunManagedPolicy(ro)
    \/ ListVersions
    \/ DeleteVersion
    \/ CreateVersion

NextTags ==
    \/ \E template \in TagLists, ro \in BOOLEAN : ApplyManagedPolicyTags(template, ro)
    \/ \E ro \in BOOLEAN : RerunManagedPolicyTags(ro)
    \/ \E i \in 1..2 : IssueTask(i)
    \/ \E i \in 1..2, ok \in BOOLEAN : CompleteTask(i, ok)

\* Version rotation: every policy of 1..5 versions, reconciled in apply or plan
\* mode against documents of at most one statement.
RotationDocuments == SeqsUpTo({"s3:Get"}, 1)
InitRotation == InitPolicy(AllVersions, RotationDocuments, {FALSE})
NextRotation == NextPolicy(RotationDocuments)
SpecRotation == InitRotation /\ [][NextRotation]_vars

\* The two reconcilers on every document and tag list within the bounds.
Init == InitPolicy(FewVersions, Documents, BOOLEAN) \/ InitTags
Next == NextPolicy(Documents) \/ NextTags
Spec == Init /\ [][Next]_vars

\* No reconciler runs.
NoReconciler ==
    /\ existing_policy_document = AsDict(<<>>)
    /\ live_tags = <<>>
    /\ created = 0
    /\ execute = FALSE
    /\ template_policy_document = <<>>
    /\ template_tags = <<>>
    /\ existing_tags = <<>>
    /\ read_only = TRUE
    /\ response = <<>>
    /\ policy_versions = <<>>
    /\ tasks = <<>>
    /\ trace = <<>>
    /\ prev_response = <<>>
    /\ reapplied = FALSE

\* The fetch of every policy of 0..5 versions, answered in every way.
InitFetch ==
    /\ fn = "get"
    /\ pc = "idle"
    /\ versions \in AllVersions \cup {<<>>}
    /\ default_document \in Documents
    /\ NoReconciler
    /\ InitElsewhere

NextFetch ==
    \/ \E answer \in GetPolicyAnswers : GetPolicy(answer)
    \/ \E answer \in GetPolicyVersionAnswers : GetPolicyVersion(answer)

SpecFetch == InitFetch /\ [][NextFetch]_vars

\* The patterns a template lists, in the order it lists them.
MaxPatterns == 2
IncludedPatterns == <<star, dev, dev2, prod>>
ExcludedPatterns == <<dev, dev2, prod>>

\* The lists of at most n of the patterns, in their order.
RECURSIVE PatternListsFrom(_, _, _)
PatternListsFrom(patterns, first, n) ==
    {<<>>} \cup
    (IF n = 0 THEN {}
     ELSE UNION {{<<patterns[k]>> \o rest : rest \in PatternListsFrom(patterns, k + 1, n - 1)}
                 : k \in first..Len(patterns)})

PatternLists(patterns) == PatternListsFrom(patterns, 1, MaxPatterns)

Template(included_accounts, excluded_accounts, deleted) ==
    [included_accounts |-> included_accounts,
     excluded_accounts |-> excluded_accounts,
     deleted |-> deleted]

\* The deleted attribute of the committed template: not deleted, wholly deleted,
\* or the records of one or two earlier commits.
PriorDeleted ==
    {Bool(FALSE), Bool(TRUE),
     List(<<Deleted(<<dev>>, <<>>)>>),
     List(<<Deleted(<<dev>>, <<>>), Deleted(<<prod>>, <<dev>>)>>)}

\* Lines 127-133: a modified file, its old and its new content parsed.
InitModified ==
    /\ fn = "modified"
    /\ pc = "included"
    /\ versions = <<>>
    /\ default_document = <<>>
    /\ NoReconciler
    /\ fetch = NoFetch
    /\ NoClassifier
    /\ NoDeletions
    /\ NoExecutor
    /\ NoMerge
    /\ \E old_included \in PatternLists(IncludedPatterns),
          old_excluded \in PatternLists(ExcludedPatterns) :
           main_template = Template(old_included, old_excluded, Bool(FALSE))
    /\ \E new_included \in PatternLists(IncludedPatterns),
          new_excluded \in PatternLists(ExcludedPatterns),
          deleted \in PriorDeleted :
           template_dict = Template(new_included, new_excluded, deleted)
    /\ modified_template = template_dict
    /\ deleted_included_accounts = <<>>
    /\ deleted_exclude_accounts = <<>>
    /\ template_excluded_accounts = <<>>
    /\ log = <<>>

NextModified ==
    \/ InferIncludedAccounts
    \/ InferExcludedAccounts
    \/ RecordDeleted

SpecModified == InitModified /\ [][NextModified]_vars

\* The names of the changed files, old names included.
Path(name, ext) == <<Component(name, ext)>>

\* The content of a file: its entries in one of two orders of the keys.
Content(order, template_type, resource_name, statements) ==
    IF order = 1
    THEN <<Scalar("template_type", template_type), Scalar("resource_name", resource_name),
           Items("statements", statements)>>
    ELSE <<Items("statements", statements), Scalar("resource_name", resource_name),
           Scalar("template_type", template_type)>>

FileObj(a_path, b_path, a_content, b_content) ==
    [a_path |-> a_path, b_path |-> b_path, a_content |-> a_content,
     b_content |-> b_content]

\* Added files: a template or another file, a .yaml file or not.
AddedFiles ==
    {FileObj(<<>>, Path("n", ext), NoContent,
             Content(1, template_type, "r1", <<"x", "y">>)) :
        ext \in {".yaml", ".txt"}, template_type \in {"NOQ::AWS::IAM::Role", "workflow"}}

\* Deleted files: GitPython gives a deleted file's path as b_path too.
RemovedFiles ==
    {FileObj(Path("d", ext), Path("d", ext),
             Content(1, template_type, "r1", <<"x", "y">>), NoContent) :
        ext \in {".yaml", ".txt"}, template_type \in {"NOQ::AWS::IAM::Role", "workflow"}}

OldContents ==
    {Content(1, template_type, "r1", statements) :
        template_type \in NoqTemplateTypes \cup {"workflow"},
        statements \in {<<"x", "y">>, <<"x", "x", "y">>}}

NewContents ==
    {Content(order, template_type, resource_name, statements) :
        order \in {1, 2},
        template_type \in {"NOQ::AWS::IAM::Role", "workflow"},
        resource_name \in {"r1", "r2"},
        statements \in {<<"x", "y">>, <<"y", "x">>, <<"x", "x", "y">>}}

\* Changed files: in place or renamed, to a .yaml file or not; their old and
\* new content differ.
ChangedFiles ==
    {FileObj(paths[1], paths[2], a_content, b_content) :
        paths \in {<<Path("a", ".yaml"), Path("a", ".yaml")>>,
                   <<Path("b", ".yaml"), Path("a", ".yaml")>>,
                   <<Path("a", ".txt"), Path("a", ".txt")>>,
                   <<Path("b", ".yaml"), Path("a", ".txt")>>},
        a_content \in OldContents,
        b_content \in NewContents}

\* At most one file of each change type.
AtMostOne(file_objs) == {<<>>} \cup {<<file_obj>> : file_obj \in file_objs}

\* Lines 24-34: the diff against origin/main, of a repository given by an
\* absolute path or by the empty string (the working directory).
InitClassify ==
    /\ fn = "classify"
    /\ pc = "new"
    /\ versions = <<>>
    /\ default_document = <<>>
    /\ NoReconciler
    /\ fetch = NoFetch
    /\ NoGit
    /\ NoDeletions
    /\ NoExecutor
    /\ NoMerge
    /\ repo_dir \in {<<>>, <<Root, Component("repo", "")>>}
    /\ \E added \in AtMostOne(AddedFiles), removed \in AtMostOne(RemovedFiles),
          changed \in AtMostOne(ChangedFiles) :
           diff_index = [A |-> added, D |-> removed, M |-> changed]
    /\ files = [new_files |-> <<>>, deleted_files |-> <<>>, modified_files |-> <<>>]

NextClassify ==
    \/ CollectNewFiles
    \/ CollectDeletedFiles
    \/ CollectModifiedFiles

SpecClassify == InitClassify /\ [][NextClassify]_vars

\* The deleted files of a commit, at most.
MaxDeleted == 3

\* The content of a deleted file: its template_type and, or not, its deleted
\* attribute.
DeletedContents ==
    {<<Scalar("template_type", template_type)>> \o deleted :
        template_type \in NoqTemplateTypes,
        deleted \in {<<>>, <<Scalar("deleted", "false")>>, <<Scalar("deleted", "true")>>,
                     <<Items("deleted", <<Deleted(<<dev>>, <<>>)>>)>>}}

\* The lists of n deleted files, the i-th at the path t.yaml under i
\* directories d.
RECURSIVE GitDiffs(_)
GitDiffs(n) ==
    IF n = 0 THEN {<<>>}
    ELSE {Append(git_diffs,
                 GitDiff([i \in 1..n |-> Component("d", "")] \o Path("t", ".yaml"),
                         content, TRUE)) :
            git_diffs \in GitDiffs(n - 1), content \in DeletedContents}

\* Line 102: templates = []
InitDeleted ==
    /\ fn = "deleted_files"
    /\ pc = "loop"
    /\ versions = <<>>
    /\ default_document = <<>>
    /\ NoReconciler
    /\ fetch = NoFetch
    /\ NoGit
    /\ NoClassifier
    /\ NoExecutor
    /\ NoMerge
    /\ deleted_files \in UNION {GitDiffs(n) : n \in 0..MaxDeleted}
    /\ cursor = 0
    /\ templates = <<>>

NextDeleted ==
    \/ TemplateForDeletedFile
    \/ ReturnTemplates

SpecDeleted == InitDeleted /\ [][NextDeleted]_vars

\* The listings: policies of different ARNs, in any order.
ManagedPolicies ==
    {arns \in SeqsUpTo(1..MaxMessages, MaxMessages) :
        \A i, j \in DOMAIN arns : arns[i] = arns[j] => i = j}

\* Lines 75-92: the semaphore made, the policies listed, process called.
InitProcess ==
    /\ fn = "process"
    /\ pc = "gathering"
    /\ versions = <<>>
    /\ default_document = <<>>
    /\ NoReconciler
    /\ fetch = NoFetch
    /\ NoGit
    /\ NoClassifier
    /\ NoDeletions
    /\ NoMerge
    /\ \E arns \in ManagedPolicies :
           messages = Messages([i \in DOMAIN arns |-> [Arn |-> arns[i]]])
    /\ handlers = [i \in DOMAIN messages |->
                      [state |-> "waiting", value |-> None, finished |-> 0]]
    /\ results = <<>>

NextProcess ==
    \/ \E i \in 1..MaxMessages : Acquire(i)
    \/ \E i \in 1..MaxMessages : Release(i)
    \/ ReturnResults

SpecProcess == InitProcess /\ [][NextProcess]_vars

\* Mergeable states GitHub reports.
MergeableStates == {MERGEABLE_STATE_CLEAN, "blocked", "unstable"}

\* Line 312: the function called with a pull request fetched earlier.
InitApply ==
    /\ fn = "git_apply"
    /\ pc = "entry"
    /\ versions = <<>>
    /\ default_document = <<>>
    /\ NoReconciler
    /\ fetch = NoFetch
    /\ NoGit
    /\ NoClassifier
    /\ NoDeletions
    /\ NoExecutor
    /\ mergeable_state \in MergeableStates
    /\ \E state \in MergeableStates : pull_request = [mergeable_state |-> state]
    /\ polls = 0
    /\ calls = <<>>
    /\ return_code = None

NextApply ==
    \/ CheckMergeable
    \/ \E raises, changed \in BOOLEAN : GitApply(raises, changed)
    \/ PollMergeable
    \/ \E accepted \in BOOLEAN : Merge(accepted)
    \/ \E state \in MergeableStates : MergeableStateChanges(state)

SpecApply == InitApply /\ [][NextApply]_vars

(***************************************************************************)
(* Properties.                                                             *)
(***************************************************************************)
Running == pc # "idle"

Issued(op) == \E k \in DOMAIN trace : trace[k].op = op

\* Two statement lists that are equal up to the order of their items.
EqualUpToOrder(t1, t2) == \A x \in Statements : Count(x, t1) = Count(x, t2)

TagKeysOf(tags) == {tags[i].Key : i \in DOMAIN tags}

\* The live keys that the desired tags do not have.
StaleKeys == TagKeysOf(existing_tags) \ TagKeysOf(template_tags)

\* The desired tags whose key is not live, or is live with another value.
TagsToApply ==
    {tag \in Range(template_tags) :
        \A i \in DOMAIN existing_tags :
            existing_tags[i].Key = tag.Key => existing_tags[i].Value # tag.Value}

DetachRecords == {i \in DOMAIN response : response[i].change_type = "DETACH"}
AttachRecords == {i \in DOMAIN response : response[i].change_type = "ATTACH"}

\* C1: with read_only true, neither reconciler issues a mutating provider call
\* (delete_policy_version, create_policy_version, untag_policy, tag_policy),
\* whatever context.execute is.
C1_ReadOnlyIssuesNoWrite ==
    (Running /\ read_only) => trace = <<>>

\* C2: on the same existing/desired arguments, a run that returns (every
\* provider call succeeded), in apply mode or in plan mode, returns the same
\* list of ProposedChange, element by element, as the plan run before it.
C2_PlanAndApplyReportTheSame ==
    (pc = "done" /\ prev_response # <<>>) => response = prev_response[1]

C2_Witness ==
    /\ pc = "done"
    /\ prev_response # <<>>
    /\ ~read_only
    /\ response # <<>>
    /\ trace # <<>>

\* C3: in apply mode with a drifting document and 5 listed versions, the first
\* provider write is the delete of a version that is not the default and has
\* the smallest CreateDate of the non-default versions; exactly that version
\* is gone when create_policy_version is issued, and the invocation issues
\* exactly one create, after the delete.
OldestNonDefault(id, vs) ==
    \E i \in DOMAIN vs :
        /\ vs[i].VersionId = id
        /\ ~vs[i].IsDefaultVersion
        /\ \A j \in DOMAIN vs : ~vs[j].IsDefaultVersion => vs[i].CreateDate <= vs[j].CreateDate

C3_RotationDeletesOldestNonDefaultFirst ==
    (fn = "policy" /\ Len(policy_versions) = MaxPolicyVersions) =>
        /\ \A k \in DOMAIN trace :
               trace[k].op = "delete_policy_version" =>
                   k = 1 /\ OldestNonDefault(trace[k].arg, policy_versions)
        /\ pc = "create_version" =>
               /\ Len(trace) = 1
               /\ trace[1].op = "delete_policy_version"
               /\ versions = SelectSeq(policy_versions,
                                       LAMBDA v : v.VersionId # trace[1].arg)
        /\ pc = "done" =>
               /\ Len(trace) = 2
               /\ trace[1].op = "delete_policy_version"
               /\ trace[2].op = "create_policy_version"
               /\ \E i \in DOMAIN versions : versions[i].IsDefaultVersion

\* Rotation where the default version is the oldest one listed.
C3_Witness ==
    /\ pc = "done"
    /\ Len(policy_versions) = MaxPolicyVersions
    /\ Len(trace) = 2
    /\ \E i \in DOMAIN policy_versions :
           /\ policy_versions[i].IsDefaultVersion
           /\ \A j \in DOMAIN policy_versions :
                  j # i => policy_versions[i].CreateDate < policy_versions[j].CreateDate

\* C4: from a policy of 1..5 versions with one default, through any sequence
\* of invocations the provider never holds more than 5 versions, and
\* create_policy_version is only issued while it holds fewer than 5.
C4_NeverMoreThanFiveVersions ==
    /\ Len(versions) <= MaxPolicyVersions
    /\ pc = "create_version" => Len(versions) < MaxPolicyVersions

\* A create that follows a rotation, in a later invocation than an earlier create.
C4_Witness ==
    /\ pc = "create_version"
    /\ Len(policy_versions) = MaxPolicyVersions
    /\ created >= 1

\* C5: once an apply-mode run has applied a drifting document, reconciling the
\* same desired document against the freshly fetched policy reports nothing
\* and writes nothing.
C5_ReapplyFindsNoDrift ==
    reapplied => (response = <<>> /\ trace = <<>> /\ pc = "done")

\* C6: when the existing and the desired document are equal up to list order,
\* update_managed_policy returns an empty list and makes no provider call, in
\* plan mode and in apply mode.
C6_NoDriftNoEffect ==
    (fn = "policy" /\ Running
       /\ EqualUpToOrder(existing_policy_document.doc, template_policy_document)) =>
        /\ pc = "done"
        /\ response = <<>>
        /\ trace = <<>>
        /\ policy_versions = <<>>

\* Apply mode, the same statements in another order.
C6_Witness ==
    /\ fn = "policy"
    /\ pc = "done"
    /\ ~read_only
    /\ existing_policy_document.doc # template_policy_document
    /\ EqualUpToOrder(existing_policy_document.doc, template_policy_document)
    /\ response = <<>>

\* C7: when the documents differ, update_managed_policy returns exactly one
\* ProposedChange: UPDATE of policy_document, current_value the existing
\* document and new_value the desired one, in plan mode and in apply mode.
C7_DriftReportsOneUpdate ==
    (fn = "policy" /\ pc = "done"
       /\ ~EqualUpToOrder(existing_policy_document.doc, template_policy_document)) =>
        /\ Len(response) = 1
        /\ response[1].change_type = "UPDATE"
        /\ response[1].attribute = "policy_document"
        /\ response[1].current_value = existing_policy_document.doc
        /\ response[1].new_value = template_policy_document

\* Apply mode, the live document passed as JSON, the documents differing only in
\* how often a statement is repeated.
C7_Witness ==
    /\ fn = "policy"
    /\ pc = "done"
    /\ ~read_only
    /\ isinstance_str(existing_policy_document)
    /\ Range(existing_policy_document.doc) = Range(template_policy_document)
    /\ ~EqualUpToOrder(existing_policy_document.doc, template_policy_document)
    /\ Len(response) = 1
    /\ Issued("create_policy_version")

\* C8: the keys apply_managed_policy_tags removes are exactly the live keys
\* absent from the desired tags, and the tags it applies are exactly the
\* desired tags whose key is not live or whose live value differs, for every
\* tag value, the empty string included.
C8_RemovesStaleAppliesChanged ==
    (fn = "tags" /\ Running) =>
        /\ UNION {Range(response[i].change_summary.TagKeys) : i \in DetachRecords}
               = StaleKeys
        /\ {response[i].new_value : i \in AttachRecords} = TagsToApply

\* C9: untag_policy has completed before tag_policy is issued, and the two
\* calls are never in flight together.
C9_UntagCompletesBeforeTag ==
    \A i, j \in DOMAIN tasks :
        (tasks[i].op = "untag_policy" /\ tasks[j].op = "tag_policy") =>
            /\ tasks[j].st # "created" => tasks[i].st \in {"done", "failed"}
            /\ ~(tasks[i].st = "inflight" /\ tasks[j].st = "inflight")

\* C10, as stated: with stale keys and tags to apply, the change list is
\* exactly two records, one DETACH and one ATTACH.
C10_TwoRecords ==
    (fn = "tags" /\ Running /\ StaleKeys # {} /\ TagsToApply # {}) =>
        /\ Len(response) = 2
        /\ response[1].change_type = "DETACH"
        /\ response[2].change_type = "ATTACH"

\* C10, amended: with stale keys and tags to apply, the change list is one
\* DETACH record, whose keys include every stale key and are the keys the
\* untag_policy call is given, followed by one ATTACH record for each tag to
\* apply, in the order of the desired tags.
C10_OneDetachThenAnAttachPerTag ==
    (fn = "tags" /\ Running /\ StaleKeys # {} /\ TagsToApply # {}) =>
        LET applied == SelectSeq(template_tags, LAMBDA tag : tag \in TagsToApply)
        IN  /\ Len(response) = 1 + Len(applied)
            /\ response[1].change_type = "DETACH"
            /\ response[1].attribute = "tags"
            /\ StaleKeys \subseteq Range(response[1].change_summary.TagKeys)
            /\ \A i \in DOMAIN tasks :
                   tasks[i].op = "untag_policy" =>
                       tasks[i].arg = response[1].change_summary.TagKeys
            /\ \A i \in DOMAIN applied :
                   response[1 + i] = ProposedChangeAttach(applied[i])

\* One stale key and two tags to apply: three records.
C10_Witness ==
    /\ fn = "tags"
    /\ pc = "done"
    /\ Cardinality(StaleKeys) = 1
    /\ Cardinality(TagsToApply) = 2
    /\ Len(response) = 3
    /\ Issued("untag_policy")
    /\ Issued("tag_policy")

(***************************************************************************)
(* get_managed_policy: properties.                                         *)
(***************************************************************************)
FetchEnded == fn = "get" /\ pc \in {"returned", "raised"}

LastAnswer == fetch.answers[Len(fetch.answers)]

NoSuchEntity == ClientError("NoSuchEntity")

\* C11: get_managed_policy returns the empty dict when the provider answers a
\* call of the fetch with the NoSuchEntity error; every other exception of the
\* provider leaves the function as it was raised, and the empty dict is never
\* returned for one.
C11_MissingEntityIsEmptyOthersPropagate ==
    FetchEnded =>
        /\ LastAnswer = NoSuchEntity =>
               /\ pc = "returned"
               /\ fetch.response = EmptyDict
               /\ fetch.error = NoError
        /\ (LastAnswer \in Exceptions /\ LastAnswer # NoSuchEntity) =>
               /\ pc = "raised"
               /\ fetch.error = LastAnswer
               /\ fetch.response = Unbound
        /\ (pc = "returned" /\ fetch.response = EmptyDict) =>
               LastAnswer \in {NoSuchEntity, NotDescribed}

\* The policy was described, then was gone when its document was asked for.
C11_Witness ==
    /\ FetchEnded
    /\ fetch.answers = <<Described, NoSuchEntity>>
    /\ pc = "returned"
    /\ fetch.response = EmptyDict

(***************************************************************************)
(* update_managed_policy: provider errors.                                 *)
(***************************************************************************)
\* The version a delete_policy_version of this invocation named is still there:
\* the provider refused the call.
DeleteFailed ==
    \E k \in DOMAIN trace :
        /\ trace[k].op = "delete_policy_version"
        /\ \E i \in DOMAIN versions : versions[i].VersionId = trace[k].arg

\* C12: in apply mode a provider call of update_managed_policy that fails ends
\* the invocation with the error: nothing is written unless the versions were
\* listed, a refused delete_policy_version is the only and last call issued
\* (no create_policy_version follows), and no call is issued a second time.
C12_FailedCallEndsInvocation ==
    (fn = "policy" /\ Running /\ ~read_only) =>
        /\ policy_versions = <<>> => trace = <<>>
        /\ DeleteFailed =>
               /\ pc = "raised"
               /\ Len(trace) = 1
               /\ ~Issued("create_policy_version")
               /\ versions = policy_versions
        /\ \A j, k \in DOMAIN trace : trace[j].op = trace[k].op => j = k

\* The provider refused to delete the oldest version of a policy at the ceiling.
C12_Witness ==
    /\ fn = "policy"
    /\ ~read_only
    /\ pc = "raised"
    /\ DeleteFailed
    /\ Len(policy_versions) = MaxPolicyVersions

(***************************************************************************)
(* create_templates_for_modified_files: properties.                        *)
(***************************************************************************)
\* The template of the modified file is returned.
TemplateReturned == fn = "modified" /\ pc = "returned"

old_included == main_template.included_accounts
old_excluded == main_template.excluded_accounts
new_included == template_dict.included_accounts
new_excluded == template_dict.excluded_accounts

Roster == Range(config_accounts)

\* An account the pattern names literally, by its id or its name.
Names(pattern, account_config) ==
    pattern \in {account_config.account_id, account_config.account_name}

\* The account is marked deleted: an entry of deleted_included_accounts is its
\* account_regex, its id or its name.
MarkedIn(entries, account_config) ==
    \E i \in DOMAIN entries :
        \/ entries[i] = account_regex(account_config)
        \/ Names(entries[i], account_config)

MarkedDeleted(account_config) == MarkedIn(deleted_included_accounts, account_config)

\* The commit added a Deleted record to the template; the record.
RecordMade ==
    /\ TemplateReturned
    /\ deleted_included_accounts # <<>>
    /\ template_dict.deleted # Bool(TRUE)

NewRecord == modified_template.deleted.list[Len(modified_template.deleted.list)]

\* C13: when the old included_accounts holds "*" and the new one does not, every
\* roster account that neither the new included_accounts nor the new
\* excluded_accounts matches is marked deleted and its pattern is appended to
\* the returned included_accounts; a roster account the new included_accounts
\* names is not marked deleted, and the new entries stay in place.
C13_WildcardToExplicit ==
    (TemplateReturned /\ star \in Range(old_included) /\ star \notin Range(new_included)) =>
        /\ \A a \in Roster :
               /\ (~MatchedBy(new_included, a) /\ ~MatchedBy(new_excluded, a)) =>
                      /\ account_regex(a) \in Range(deleted_included_accounts)
                      /\ account_regex(a) \in Range(modified_template.included_accounts)
               /\ (\E i \in DOMAIN new_included : Names(new_included[i], a)) =>
                      ~MarkedDeleted(a)
        /\ SubSeq(modified_template.included_accounts, 1, Len(new_included)) = new_included

\* C14: when neither the old nor the new included_accounts holds "*", an old
\* pattern is marked deleted exactly when the account it names is not matched
\* by the new included_accounts; old dev beside new dev2 is marked deleted.
C14_ExplicitListDeletion ==
    (TemplateReturned /\ star \notin Range(old_included) /\ star \notin Range(new_included)) =>
        \A i \in DOMAIN old_included :
            old_included[i] \in Range(deleted_included_accounts)
                <=> ~\E a \in Roster : /\ Names(old_included[i], a)
                                       /\ MatchedBy(new_included, a)

\* The pattern, as a regular expression, is found in an entry of the list.
FoundIn(pattern, patterns) ==
    \E j \in DOMAIN patterns : re_search(pattern, patterns[j])

AlreadyExcluded(pattern) == FoundIn(pattern, old_excluded)

WasIncluded(pattern) == FoundIn(pattern, old_included) \/ star \in Range(old_included)

\* The exclusion step marked the pattern deleted.
MarkedAsExcluded(pattern) ==
    /\ LogInfo("Account added to excluded_accounts for resource.", pattern) \in Range(log)
    /\ pattern \in Range(deleted_included_accounts)
    /\ pattern \in Range(modified_template.included_accounts)

StaysExcluded(pattern) == pattern \in Range(modified_template.excluded_accounts)

C16_ExcludedBeforeAndAfterNeverDeleted ==
    RecordMade =>
        \A a \in Roster :
            (/\ \E i \in DOMAIN old_excluded : Names(old_excluded[i], a)
             /\ \E i \in DOMAIN new_excluded : Names(new_excluded[i], a))
                => ~MarkedIn(NewRecord.included_accounts, a)

\* C17: the Deleted record the commit adds has excluded_accounts equal to the old
\* template's excluded_accounts with "*" removed.
C17_RecordExcludesOldExcluded ==
    RecordMade =>
        NewRecord.excluded_accounts = SelectSeq(old_excluded, LAMBDA ea : ea # star)

\* C17, amended: the Deleted record the commit adds has excluded_accounts equal
\* to the new template's included_accounts as committed, with "*" removed.
C17_RecordExcludesNewIncluded ==
    RecordMade =>
        NewRecord.excluded_accounts = SelectSeq(new_included, LAMBDA ea : ea # star)

\* A commit that keeps "*" and an account included and newly excludes another.
C17_Witness ==
    /\ RecordMade
    /\ star \in Range(new_included)
    /\ Len(new_included) = 2
    /\ old_excluded # <<>>
    /\ NewRecord.excluded_accounts # old_excluded

NoDuplicates(entries) ==
    \A i, j \in DOMAIN entries : entries[i] = entries[j] => i = j

\* What the inference appended to the committed included_accounts.
ReAdded ==
    SubSeq(modified_template.included_accounts, Len(new_included) + 1,
           Len(modified_template.included_accounts))

\* C18: the three outcomes are disjoint for an account: the list of accounts
\* marked deleted has no entry twice, no account has more than one entry in it
\* (an account removed from included_accounts and added to excluded_accounts in
\* one commit is marked once), and no pattern is re-added twice.
C18_MarkedOnce ==
    TemplateReturned =>
        /\ NoDuplicates(deleted_included_accounts)
        /\ NoDuplicates(ReAdded)
        /\ \A a \in Roster :
               Cardinality({i \in DOMAIN deleted_included_accounts :
                               MarkedIn(<<deleted_included_accounts[i]>>, a)}) <= 1

\* The deletion records the committed template already had.
PriorRecords ==
    IF isinstance_bool(template_dict.deleted) THEN <<>> ELSE template_dict.deleted.list

\* C19: deletion records are append-only.  When the inference marks an account
\* and the template is not wholly deleted, the returned deleted is the earlier
\* records, unchanged and in order, followed by exactly one new record; when
\* deleted is True no record is added and deleted stays True.
C19_DeletedRecordsAppendOnly ==
    TemplateReturned =>
        IF template_dict.deleted = Bool(TRUE)
        THEN modified_template.deleted = Bool(TRUE)
        ELSE IF deleted_included_accounts # <<>>
        THEN /\ ~isinstance_bool(modified_template.deleted)
             /\ Len(modified_template.deleted.list) = Len(PriorRecords) + 1
             /\ SubSeq(modified_template.deleted.list, 1, Len(PriorRecords)) = PriorRecords
             /\ NewRecord.deleted = TRUE
             /\ NewRecord.included_accounts = deleted_included_accounts
        ELSE modified_template.deleted = template_dict.deleted

\* A record is added to a template that carries two earlier ones.
C19_Witness ==
    /\ RecordMade
    /\ Len(PriorRecords) = 2
    /\ Len(modified_template.deleted.list) = 3

\* C20: the returned excluded_accounts holds exactly the new excluded patterns
\* that are not marked for deletion: no pattern and no account is at once in
\* the returned excluded_accounts and in the new Deleted record's
\* included_accounts.
C20_ExcludedAndDeletedDisjoint ==
    RecordMade =>
        /\ \A p \in Range(new_excluded) \cup Range(modified_template.excluded_accounts) :
               p \in Range(modified_template.excluded_accounts)
                   <=> (/\ p \in Range(new_excluded)
                        /\ p \notin Range(NewRecord.included_accounts))
        /\ \A a \in Roster :
               ~(/\ \E i \in DOMAIN modified_template.excluded_accounts :
                        Names(modified_template.excluded_accounts[i], a)
                 /\ MarkedIn(NewRecord.included_accounts, a))

(***************************************************************************)
(* retrieve_git_changes: properties.                                       *)
(***************************************************************************)
Classified == fn = "classify" /\ pc = "returned"

Added == Range(diff_index.A)
Removed == Range(diff_index.D)
Changed == Range(diff_index.M)

\* The path a changed file's GitDiff is given.
PathOf(file_obj) == os_path_join(repo_dir, file_obj.b_path)

Listed(file_obj, list) == \E i \in DOMAIN list : list[i].path = PathOf(file_obj)

\* C21: an added file is in new_files only if it is a .yaml file whose new
\* content has the template marker, a deleted file is in deleted_files only if
\* it is a .yaml file whose prior content had it; and every entry of the three
\* lists is of a file with the marker: in the prior content for deleted_files,
\* in the new content for new_files and modified_files.
C21_OnlyMarkedYamlFiles ==
    Classified =>
        /\ \A file_obj \in Added :
               Listed(file_obj, files.new_files) =>
                   endswith_yaml(file_obj.b_path) /\ has_template_marker(file_obj.b_content)
        /\ \A file_obj \in Removed :
               Listed(file_obj, files.deleted_files) =>
                   endswith_yaml(file_obj.b_path) /\ has_template_marker(file_obj.a_content)
        /\ \A i \in DOMAIN files.deleted_files :
               has_template_marker(files.deleted_files[i].content)
        /\ \A i \in DOMAIN files.new_files :
               \E file_obj \in Added \cup Changed :
                   /\ files.new_files[i].path = PathOf(file_obj)
                   /\ has_template_marker(file_obj.b_content)
        /\ \A i \in DOMAIN files.modified_files :
               \E file_obj \in Changed :
                   /\ files.modified_files[i].path = PathOf(file_obj)
                   /\ has_template_marker(file_obj.b_content)
        /\ \A file_obj \in Added \cup Removed \cup Changed :
               (~has_template_marker(file_obj.a_content)
                /\ ~has_template_marker(file_obj.b_content)) =>
                   /\ ~Listed(file_obj, files.new_files)
                   /\ ~Listed(file_obj, files.deleted_files)
                   /\ ~Listed(file_obj, files.modified_files)

\* A deleted .yaml file without the marker is left out beside an added template.
C21_Witness ==
    /\ Classified
    /\ Len(files.new_files) = 1
    /\ files.deleted_files = <<>>
    /\ \E file_obj \in Removed :
           endswith_yaml(file_obj.b_path) /\ ~has_template_marker(file_obj.a_content)
    /\ \E file_obj \in Added : Listed(file_obj, files.new_files)

Renamed(file_obj) == file_obj.a_path # file_obj.b_path

\* Two lists with the same items, each as often in the one as in the other.
SameItems(s, t) == \A x \in Range(s) \cup Range(t) : Count(x, s) = Count(x, t)

\* Two contents equal up to the order of their keys and of their list items.
SemanticallyIdentical(a_content, b_content) ==
    LET t1 == yaml_load(a_content)
        t2 == yaml_load(b_content)
    IN  /\ t1.template_type = t2.template_type
        /\ t1.resource_name = t2.resource_name
        /\ SameItems(t1.statements, t2.statements)

\* No entry of any list is of the file, under its old or its new path.
NoEntryOf(file_obj) ==
    \A name \in {"new_files", "deleted_files", "modified_files"} :
        \A i \in DOMAIN files[name] :
            /\ files[name][i].path # os_path_join(repo_dir, file_obj.a_path)
            /\ files[name][i].path # os_path_join(repo_dir, file_obj.b_path)

ClassifyEnded == fn = "classify" /\ pc \notin {"new", "deleted", "modified"}

\* C22: a renamed template file whose old and new content are equal up to the
\* order of the keys and of the list items leaves no entry in new_files,
\* deleted_files or modified_files, and the classification returns.
C22_RenameWithoutChangeYieldsNothing ==
    ClassifyEnded =>
        \A file_obj \in Changed :
            (/\ Renamed(file_obj)
             /\ has_template_marker(file_obj.b_content)
             /\ SemanticallyIdentical(file_obj.a_content, file_obj.b_content)) =>
                pc = "returned" /\ NoEntryOf(file_obj)

\* A template renamed to another .yaml file, its keys and its list reordered.
C22_Witness ==
    /\ Classified
    /\ repo_dir # <<>>
    /\ \E file_obj \in Changed :
           /\ Renamed(file_obj)
           /\ endswith_yaml(file_obj.b_path)
           /\ has_template_marker(file_obj.b_content)
           /\ SemanticallyIdentical(file_obj.a_content, file_obj.b_content)
           /\ file_obj.a_content[1] # file_obj.b_content[1]
           /\ yaml_load(file_obj.a_content).statements
                  # yaml_load(file_obj.b_content).statements
           /\ NoEntryOf(file_obj)

\* Two contents that differ only in how often a list item is repeated.
DifferOnlyInRepetition(a_content, b_content) ==
    LET t1 == yaml_load(a_content)
        t2 == yaml_load(b_content)
    IN  /\ t1.template_type = t2.template_type
        /\ t1.resource_name = t2.resource_name
        /\ Range(t1.statements) = Range(t2.statements)
        /\ ~SameItems(t1.statements, t2.statements)

\* The file is in modified_files once, with its old content.
ModifiedOnce(file_obj) ==
    /\ Len(files.modified_files) = 1
    /\ files.modified_files[1] = GitDiff(PathOf(file_obj), file_obj.a_content, FALSE)

\* C23: the comparison of old and new content counts repetitions: a changed
\* template file whose contents differ only in how often a list item is
\* repeated is emitted in modified_files with its old content.
C23_RepetitionIsADifference ==
    ClassifyEnded =>
        \A file_obj \in Changed :
            (/\ endswith_yaml(file_obj.b_path)
             /\ has_template_marker(file_obj.b_content)
             /\ DifferOnlyInRepetition(file_obj.a_content, file_obj.b_content)) =>
                pc = "returned" /\ ModifiedOnce(file_obj)

\* A changed .yaml file that is a template before and after the change.
ChangedTemplate(file_obj) ==
    /\ endswith_yaml(file_obj.b_path)
    /\ has_template_marker(file_obj.a_content)
    /\ has_template_marker(file_obj.b_content)

ResourceNameDiffers(file_obj) ==
    yaml_load(file_obj.a_content).resource_name
        # yaml_load(file_obj.b_content).resource_name

\* The old file is in deleted_files and the new path in new_files, once each.
DeletedAndCreated(file_obj) ==
    /\ files.deleted_files
           = DeletedFiles(repo_dir, diff_index.D)
                 \o <<GitDiff(os_path_join(repo_dir, file_obj.a_path),
                              file_obj.a_content, TRUE)>>
    /\ files.new_files
           = NewFiles(repo_dir, diff_index.A)
                 \o <<GitDiff(PathOf(file_obj), NoContent, FALSE)>>
    /\ files.modified_files = <<>>

\* C24: a changed template file whose resource_name differs between its old
\* and its new content is emitted as its old file in deleted_files (old
\* content, is_deleted true) and its new path in new_files, and not in
\* modified_files; one whose resource_name is the same and whose content
\* differs is emitted once, in modified_files, with its old content.
C24_ResourceNameDecidesTheList ==
    ClassifyEnded =>
        \A file_obj \in Changed :
            ChangedTemplate(file_obj) =>
                /\ pc = "returned"
                /\ ResourceNameDiffers(file_obj) => DeletedAndCreated(file_obj)
                /\ (/\ ~ResourceNameDiffers(file_obj)
                    /\ ~SemanticallyIdentical(file_obj.a_content, file_obj.b_content)) =>
                       /\ ModifiedOnce(file_obj)
                       /\ files.deleted_files = DeletedFiles(repo_dir, diff_index.D)
                       /\ files.new_files = NewFiles(repo_dir, diff_index.A)

\* C25: a changed file that does not parse as a template, its template_type
\* not being in the registry, is skipped: the classification returns, and the
\* added and the deleted files are classified as they are without that file.
C25_UnparsableFileIsSkipped ==
    ClassifyEnded =>
        \A file_obj \in Changed :
            (/\ ChangedTemplate(file_obj)
             /\ yaml_load(file_obj.a_content).template_type \notin TEMPLATE_TYPE_MAP) =>
                /\ pc = "returned"
                /\ NoEntryOf(file_obj)
                /\ files.new_files = NewFiles(repo_dir, diff_index.A)
                /\ files.deleted_files = DeletedFiles(repo_dir, diff_index.D)

(***************************************************************************)
(* create_templates_for_modified_files: further properties.               *)
(***************************************************************************)
\* C27: every pattern marked for deletion is in the template's
\* included_accounts, after each of the steps and in the template returned,
\* whether or not the template is wholly deleted: the patterns appended to the
\* committed included_accounts are the marked ones, in their order, and each
\* entry of the new Deleted record's included_accounts is in the returned list.
C27_MarkedPatternsAreIncluded ==
    fn = "modified" =>
        /\ Range(deleted_included_accounts)
               \subseteq Range(modified_template.included_accounts)
        /\ pc # "included" => ReAdded = deleted_included_accounts
        /\ RecordMade =>
               Range(NewRecord.included_accounts)
                   \subseteq Range(modified_template.included_accounts)

\* A wholly deleted template with a pattern marked by the first step and one
\* marked by the step over excluded_accounts.
C27_Witness ==
    /\ TemplateReturned
    /\ template_dict.deleted = Bool(TRUE)
    /\ Len(deleted_included_accounts) >= 2
    /\ deleted_included_accounts[Len(deleted_included_accounts)] \in Range(new_excluded)
    /\ deleted_included_accounts[1] \notin Range(new_excluded)

\* C28: when the old and the new included_accounts are the same list of plain
\* names and the old and the new excluded_accounts are the same list, the
\* template returned is the committed one, with included_accounts,
\* excluded_accounts and deleted unchanged; no account is marked and no Deleted
\* record is made.
C28_SameScopeIsANoOp ==
    (/\ TemplateReturned
     /\ old_included = new_included
     /\ old_excluded = new_excluded
     /\ star \notin Range(new_included)) =>
        /\ modified_template = template_dict
        /\ deleted_included_accounts = <<>>
        /\ ~RecordMade

\* Two included and two excluded names kept by the commit.
C28_Witness ==
    /\ TemplateReturned
    /\ old_included = new_included
    /\ old_excluded = new_excluded
    /\ star \notin Range(new_included)
    /\ Len(new_included) = 2
    /\ Len(new_excluded) = 2
    /\ modified_template = template_dict

(***************************************************************************)
(* create_templates_for_deleted_files: properties.                         *)
(***************************************************************************)
TemplatesReturned == fn = "deleted_files" /\ pc = "returned"

\* The template of the file was wholly deleted already.
WhollyDeleted(git_diff) == deleted_of(git_diff.content) = Bool(TRUE)

\* The deleted files whose template was not wholly deleted, in input order.
NotYetDeleted == SelectSeq(deleted_files, LAMBDA git_diff : ~WhollyDeleted(git_diff))

\* C29: create_templates_for_deleted_files returns one template for each
\* deleted file whose template was not wholly deleted, in input order, each
\* with deleted set to True; a file whose template had deleted = True gives
\* no template.
C29_OneTemplatePerFileNotYetDeleted ==
    TemplatesReturned =>
        /\ Len(templates) = Len(NotYetDeleted)
        /\ \A k \in DOMAIN templates :
               /\ templates[k].file_path = NotYetDeleted[k].path
               /\ templates[k].deleted = Bool(TRUE)
        /\ \A i \in DOMAIN deleted_files :
               WhollyDeleted(deleted_files[i]) =>
                   \A k \in DOMAIN templates :
                       templates[k].file_path # deleted_files[i].path

\* Three files: one wholly deleted between one with earlier Deleted records
\* and one not deleted.
C29_Witness ==
    /\ TemplatesReturned
    /\ Len(deleted_files) = 3
    /\ ~isinstance_bool(deleted_of(deleted_files[1].content))
    /\ WhollyDeleted(deleted_files[2])
    /\ deleted_of(deleted_files[3].content) = Bool(FALSE)
    /\ Len(templates) = 2

(***************************************************************************)
(* list_managed_policies: properties.                                      *)
(***************************************************************************)
\* C26: the executor of list_managed_policies never has more than its limit of
\* calls in flight, and the list it returns has, at each index, the result of
\* the call made for the message at that index, in whatever order the calls
\* completed.
C26_BoundedAndIndexAligned ==
    fn = "process" =>
        /\ Cardinality(InFlight) <= BatchSize
        /\ pc = "returned" =>
               /\ Len(results) = Len(messages)
               /\ \A i \in DOMAIN messages : results[i] = Callback(messages[i])

\* More messages than permits, the first message's call completing last.
C26_Witness ==
    /\ fn = "process"
    /\ pc = "returned"
    /\ Len(messages) > BatchSize
    /\ handlers[1].finished = Len(messages)
    /\ results[1] = Callback(messages[1])

(***************************************************************************)
(* handle_iambic_git_apply: properties.                                    *)
(***************************************************************************)
Called(name) == \E k \in DOMAIN calls : calls[k].call = name

\* What the last read of the pull request before the k-th call saw.
LastObserved(k) ==
    LET reads == {j \in 1..(k - 1) : calls[j].observed # None}
    IN  calls[CHOOSE j \in reads : \A i \in reads : i <= j].observed

\* C30: handle_iambic_git_apply calls pull_request.merge only when the
\* mergeable state is clean.  When the state at entry is not clean it returns
\* MERGEABLE_STATE_NOT_CLEAN and neither runs git_apply nor merges; after
\* git_apply, merge is called only if the last fetch of the pull request saw
\* a clean state.
C30_MergeOnlyWhenClean ==
    (fn = "git_apply" /\ calls # <<>>) =>
        /\ calls[1].observed # MERGEABLE_STATE_CLEAN =>
               /\ return_code = "MERGEABLE_STATE_NOT_CLEAN"
               /\ ~Called("git_apply")
               /\ ~Called("merge")
        /\ \A k \in DOMAIN calls :
               calls[k].call = "merge" => LastObserved(k) = MERGEABLE_STATE_CLEAN

====
